---- MODULE Spec2Model ----
(***************************************************************************)
(* Model of src/wkhtmltoimage.go: the wrapper around the wkhtmltoimage     *)
(* binary.  Go strings are TLA+ strings, byte slices are sequences of      *)
(* byte values, the process-wide cached path is the variable binImagePath, *)
(* and every goroutine calling into the package is a caller with its own   *)
(* program counter and locals.  cached is the history of binImagePath: the *)
(* set of the paths ever stored in it.                                     *)
(***************************************************************************)
EXTENDS Integers, Sequences, FiniteSets, TLC

VARIABLES binImagePath, cached, fs, calls

vars == <<binImagePath, cached, fs, calls>>

----------------------------------------------------------------------------
(* Bounds of the model.                                                    *)

\* goroutines calling the package concurrently
NumCallers == 2
\* stray bytes in front of the image stream in the captured output
MaxGarbage == 2
\* pages of a decoded JSON page list
MaxPages == 2

Callers == 1..NumCallers

----------------------------------------------------------------------------
(* Strings.                                                                *)

CharAt(s, i) == SubSeq(s, i, i)

Digits == "0123456789"

RECURSIVE utoa(_)
utoa(n) ==
    IF n < 10 THEN CharAt(Digits, n + 1)
    ELSE utoa(n \div 10) \o CharAt(Digits, (n % 10) + 1)

\* strconv.Itoa: the base-10 rendering, with a leading "-" for negatives
Itoa(n) == IF n < 0 THEN "-" \o utoa(0 - n) ELSE utoa(n)

\* filepath.Join of a directory and a file name
Join(dir, name) == dir \o "/" \o name

----------------------------------------------------------------------------
(* ImageOptions and buildParams.                                           *)

ImageOptions(bin, input, format, h, w, q, html, output) ==
    [BinaryPath |-> bin, Input |-> input, Format |-> format, Height |-> h,
     Width |-> w, Quality |-> q, Html |-> html, Output |-> output]

\* the flag that carries the format: the option, or "png" when it is unset
FormatArg(options) ==
    IF options.Format # "" THEN options.Format ELSE "png"

\* as IntFlag, testing v > 0 in place of v != 0
IntFlag_positive(name, v) == IF v > 0 THEN <<name, Itoa(v)>> ELSE <<>>

\* a "--name value" pair, emitted only for a non-zero value
IntFlag(name, v) == IF v # 0 THEN <<name, Itoa(v)>> ELSE <<>>

\* as ClearedHtml, without the clearing
ClearedHtml_kept(options) == options.Html

\* the Html field after buildParams: cleared unless Input is "-"
ClearedHtml(options) == IF options.Input # "-" THEN "" ELSE options.Html

\* the output positional: the option, or "-" (standard output) when unset
OutputArg(options) == IF options.Output = "" THEN "-" ELSE options.Output

\* as MissingInput, taking supplied Html for an input
MissingInput_html(options) == options.Input = "" /\ options.Html = ""

\* the validation of buildParams
MissingInput(options) == options.Input = ""

\* buildParams: the argument list, the error, and the options record as the
\* function leaves it (it writes options.Html through the pointer)
buildParams(options) ==
    IF MissingInput(options)
    THEN [a |-> <<>>, err |-> "Must provide input", options |-> options]
    ELSE [a |-> <<"-q", "--disable-plugins", "--format", FormatArg(options)>>
                \o IntFlag("--height", options.Height)
                \o IntFlag("--width", options.Width)
                \o IntFlag("--quality", options.Quality)
                \o <<options.Input, OutputArg(options)>>,
          err |-> "",
          options |-> [options EXCEPT !.Html = ClearedHtml(options)]]

----------------------------------------------------------------------------
(* The image codecs, as far as cleanupOutput depends on them.  A stream is *)
(* a start marker, one byte of picture content, one byte the encoder is    *)
(* free to choose (filter type for png, quantisation for jpeg) and an end  *)
(* marker.  Decoding reads from the front and ignores what follows the end *)
(* marker; encoding always writes the encoder's own choice, so a decoded   *)
(* and re-encoded stream need not be the bytes that were read.             *)

\* first byte of the png signature, 0x89
PngSig == 137
\* last byte of the png IEND chunk, 0x82
PngEnd == 130
\* filter byte written by png.Encode
PngFilter == 0
\* jpeg start-of-image and end-of-image markers, 0xFF and 0xD9
JpegSoi == 255
JpegEoi == 217
\* quantisation byte written by jpeg.Encode with nil options (DefaultQuality)
JpegQuality == 75

\* picture contents
Pixels == {1, 2}

PngStream(p, f) == <<PngSig, p, f, PngEnd>>
JpegStream(p, q) == <<JpegSoi, p, q, JpegEoi>>

\* png.Decode / jpeg.Decode on a reader over img; ok = FALSE is a non-nil error,
\* and then the decoded image is the nil interface
Decode(format, img) ==
    LET first == IF format = "png" THEN PngSig ELSE JpegSoi
        last  == IF format = "png" THEN PngEnd ELSE JpegEoi
    IN  IF Len(img) >= 4 /\ img[1] = first /\ img[2] \in Pixels /\ img[4] = last
        THEN [ok |-> TRUE, image |-> img[2]]
        ELSE [ok |-> FALSE, image |-> 0]

\* png.Encode / jpeg.Encode of a non-nil image into an empty buffer
Encode(format, image) ==
    IF format = "png" THEN PngStream(image, PngFilter)
    ELSE JpegStream(image, JpegQuality)

----------------------------------------------------------------------------
(* cleanupOutput.                                                          *)

\* as trimLoop, with "if err != nil" in place of the loop: one byte dropped,
\* one more decode
trimLoop_once(format, img, n) ==
    IF Len(img) = 0
    THEN [panic |-> TRUE, ok |-> FALSE, image |-> 0, img |-> img, attempts |-> n]
    ELSE LET rest == Tail(img)
             d == Decode(format, rest)
         IN  [panic |-> FALSE, ok |-> d.ok, image |-> d.image, img |-> rest,
              attempts |-> n + 1]

\* the loop "for err != nil", entered with a failed decode of img;
\* n counts the decode attempts made so far
RECURSIVE trimLoop(_, _, _)
trimLoop(format, img, n) ==
    IF Len(img) = 0
    THEN \* img[1:] of an empty slice: slice bounds out of range
         [panic |-> TRUE, ok |-> FALSE, image |-> 0, img |-> img, attempts |-> n]
    ELSE LET rest == Tail(img) IN
         IF Len(rest) = 0
         THEN \* break: decoded is still the nil image
              [panic |-> FALSE, ok |-> FALSE, image |-> 0, img |-> rest,
               attempts |-> n]
         ELSE LET d == Decode(format, rest) IN
              IF d.ok
              THEN [panic |-> FALSE, ok |-> TRUE, image |-> d.image,
                    img |-> rest, attempts |-> n + 1]
              ELSE trimLoop(format, rest, n + 1)

\* one case of the switch: decode, trim until a decode succeeds, re-encode
repair(format, img) ==
    LET d == Decode(format, img)
        t == IF d.ok
             THEN [panic |-> FALSE, ok |-> TRUE, image |-> d.image, img |-> img,
                   attempts |-> 1]
             ELSE trimLoop(format, img, 1)
    IN  IF t.panic \/ ~t.ok
        THEN \* either the slice expression panicked, or Encode is handed the
             \* nil image and dereferences it
             [panic |-> TRUE, bytes |-> <<>>, attempts |-> t.attempts]
        ELSE [panic |-> FALSE, bytes |-> Encode(format, t.image),
              attempts |-> t.attempts]

cleanupOutput(img, format) ==
    IF format = "png" \/ format = "jpg"
    THEN repair(format, img)
    ELSE [panic |-> FALSE, bytes |-> img, attempts |-> 0]

----------------------------------------------------------------------------
(* base64.StdEncoding.DecodeString and the string conversion of its bytes. *)

B64Alphabet ==
    "ABCDEFGHIJKLMNOPQRSTUVWXYZabcdefghijklmnopqrstuvwxyz0123456789+/"

\* the 6-bit value of a character, or -1 when it is not in the alphabet
B64Value(ch) ==
    LET at == {i \in 1..64 : CharAt(B64Alphabet, i) = ch}
    IN  IF at = {} THEN 0 - 1 ELSE (CHOOSE i \in at : TRUE) - 1

\* printable ASCII, from the space (32) to the tilde (126); the grave accent
\* (96), which a TLA+ string cannot hold, stands as "?"
Ascii ==
    " !\"#$%&'()*+,-./0123456789:;<=>?@ABCDEFGHIJKLMNOPQRSTUVWXYZ[\\]^_?abcdefghijklmnopqrstuvwxyz{|}~"

\* string(buf) for one byte
Chr(b) == IF b >= 32 /\ b <= 126 THEN CharAt(Ascii, b - 31) ELSE "?"

\* one quantum of four characters: ok, and the characters it decodes to;
\* padding is accepted only in the last quantum (last = TRUE)
B64Quantum(q, last) ==
    LET c == [i \in 1..4 |-> CharAt(q, i)]
        pad == IF c[4] # "=" THEN 0 ELSE IF c[3] # "=" THEN 1 ELSE 2
        v == [i \in 1..4 |-> IF i > 4 - pad THEN 0 ELSE B64Value(c[i])]
        n == v[1] * 262144 + v[2] * 4096 + v[3] * 64 + v[4]
        b1 == Chr(n \div 65536)
        b2 == Chr((n \div 256) % 256)
        b3 == Chr(n % 256)
    IN  IF (pad > 0 /\ ~last) \/ (\E i \in 1..4 : v[i] < 0)
        THEN [ok |-> FALSE, text |-> ""]
        ELSE [ok |-> TRUE,
              text |-> IF pad = 2 THEN b1
                       ELSE IF pad = 1 THEN b1 \o b2 ELSE b1 \o b2 \o b3]

RECURSIVE B64Decode(_)
B64Decode(s) ==
    IF Len(s) = 0 THEN [ok |-> TRUE, text |-> ""]
    ELSE IF Len(s) < 4 THEN [ok |-> FALSE, text |-> ""]
    ELSE LET q == B64Quantum(SubSeq(s, 1, 4), Len(s) = 4)
             r == B64Decode(SubSeq(s, 5, Len(s)))
         IN  IF q.ok /\ r.ok THEN [ok |-> TRUE, text |-> q.text \o r.text]
             ELSE [ok |-> FALSE, text |-> ""]

----------------------------------------------------------------------------
(* The environment findPath looks at: fs.exeDir is the absolute directory  *)
(* of os.Args[0] ("" when filepath.Abs fails), fs.execs the executable     *)
(* files that exist, fs.env the value of WKHTMLTOIMAGE_PATH.               *)

exe == "wkhtmltoimage"

\* the directories of PATH, in order
SearchPath == <<"/usr/bin">>

ExeDirs == {"", "/app"}
EnvDirs == {"", "/env"}
Files == {Join("/app", exe), Join("/usr/bin", exe), Join("/env", exe)}

FileSystems == [exeDir : ExeDirs, execs : SUBSET Files, env : EnvDirs]

\* exec.LookPath of a name with a slash: the file itself, "" for an error
LookPathFile(file) == IF file \in fs.execs THEN file ELSE ""

\* exec.LookPath of a bare name: the first directory of PATH that has it
LookPathName(name) ==
    LET hits == {i \in 1..Len(SearchPath) : Join(SearchPath[i], name) \in fs.execs}
    IN  IF hits = {} THEN ""
        ELSE Join(SearchPath[CHOOSE i \in hits : \A j \in hits : i <= j], name)

\* stringStore.Get on binImagePath
GetWKHTMLToImagePath == binImagePath

\* stringStore.Set on binImagePath
Set(path) ==
    /\ binImagePath' = path
    /\ cached' = cached \cup {path}

\* a step that does not store to binImagePath
NoSet == UNCHANGED <<binImagePath, cached>>

----------------------------------------------------------------------------
(* The callers.  calls[c] holds the position and the locals of caller c's  *)
(* call in progress: given is the options record as the caller built it,   *)
(* options the record as the call has modified it, arr the argument list,  *)
(* spawn what exec.Command was given, output what CombinedOutput captured, *)
(* exitErr its error, repairedAs the format cleanupOutput was called with, *)
(* attempts the decode attempts it made, ret what the call returned.       *)
(* readCache, searched and cacheAtCall record what the call did with the   *)
(* cached path and the search.                                             *)

NoOptions == ImageOptions("", "", "", 0, 0, 0, "", "")
NoDoc == [wellformed |-> TRUE, Pages |-> <<>>]
NoSpawn == [ran |-> FALSE, path |-> "", args |-> <<>>, piped |-> FALSE,
            stdin |-> ""]
NoReturn == [returned |-> FALSE, bytes |-> <<>>, err |-> ""]

Idle == [pc |-> "idle", via |-> "", doc |-> NoDoc, given |-> NoOptions,
         options |-> NoOptions, arr |-> <<>>, readCache |-> FALSE,
         searched |-> {}, cacheAtCall |-> "", spawn |-> NoSpawn,
         output |-> <<>>, exitErr |-> "", repairedAs |-> "", attempts |-> 0,
         ret |-> NoReturn]

Returned(bytes, err) == [returned |-> TRUE, bytes |-> bytes, err |-> err]

\* GenerateImage up to the call of findPath: buildParams, and the early return
\* on its error
enter(options, via, doc) ==
    LET bp == buildParams(options)
        base == [Idle EXCEPT !.via = via, !.doc = doc, !.given = options,
                             !.options = bp.options, !.arr = bp.a,
                             !.cacheAtCall = binImagePath]
    IN  IF bp.err # ""
        THEN [base EXCEPT !.pc = "done", !.ret = Returned(<<>>, bp.err)]
        ELSE [base EXCEPT !.pc = "findPath"]

\* a return of ImageFromJSON that does not reach GenerateImage
direct(doc, err) ==
    [Idle EXCEPT !.pc = "done", !.via = "ImageFromJSON", !.doc = doc,
                 !.cacheAtCall = binImagePath, !.ret = Returned(<<>>, err)]

GenerateImage(c, options) ==
    /\ calls[c].pc = "idle"
    /\ calls' = [calls EXCEPT ![c] = enter(options, "GenerateImage", NoDoc)]
    /\ NoSet /\ UNCHANGED fs

\* as FirstPage, taking the last page
FirstPage_last(jp) == jp.Pages[Len(jp.Pages)]

\* p := jp.Pages[0]
FirstPage(jp) == jp.Pages[1]

\* jp is what json.Decode made of the reader: a page list, or an error
ImageFromJSON(c, jp) ==
    /\ calls[c].pc = "idle"
    /\ calls' = [calls EXCEPT ![c] =
         IF ~jp.wellformed THEN direct(jp, "error unmarshaling JSON")
         ELSE IF Len(jp.Pages) > 0
         THEN LET p == FirstPage(jp)
                  buf == B64Decode(p.Base64PageData)
              IN  IF p.Base64PageData = ""
                  THEN enter([NoOptions EXCEPT !.Input = p.InputFile],
                             "ImageFromJSON", jp)
                  ELSE IF ~buf.ok
                  THEN direct(jp, "error decoding base 64 input on page 0")
                  ELSE enter([NoOptions EXCEPT !.Input = "-", !.Html = buf.text],
                             "ImageFromJSON", jp)
         ELSE direct(jp, "")]
    /\ NoSet /\ UNCHANGED fs

\* as FindPathCached, without the early return on a cached path
FindPathCached_always(c) ==
    /\ calls[c].pc = "findPath"
    /\ calls' = [calls EXCEPT ![c].readCache = TRUE,
                              ![c].pc = IF fs.exeDir = "" THEN "resolve"
                                        ELSE "lookAdjacent"]
    /\ NoSet /\ UNCHANGED fs

\* findPath: the cache check, and filepath.Abs of the executable's directory
FindPathCached(c) ==
    /\ calls[c].pc = "findPath"
    /\ calls' = [calls EXCEPT ![c].readCache = TRUE,
                              ![c].pc = IF GetWKHTMLToImagePath # "" THEN "resolve"
                                        ELSE IF fs.exeDir = "" THEN "resolve"
                                        ELSE "lookAdjacent"]
    /\ NoSet /\ UNCHANGED fs

\* findPath: exec.LookPath(filepath.Join(exeDir, exe))
LookAdjacent(c) ==
    /\ calls[c].pc = "lookAdjacent"
    /\ LET path == LookPathFile(Join(fs.exeDir, exe)) IN
         /\ IF path # "" THEN Set(path) ELSE NoSet
         /\ calls' = [calls EXCEPT
                        ![c].searched = @ \cup {"adjacent"},
                        ![c].pc = IF path # "" THEN "resolve" ELSE "lookSystem"]
    /\ UNCHANGED fs

\* findPath: exec.LookPath(exe), then os.Getenv("WKHTMLTOIMAGE_PATH")
LookSystem(c) ==
    /\ calls[c].pc = "lookSystem"
    /\ LET path == LookPathName(exe) IN
         /\ IF path # "" THEN Set(path) ELSE NoSet
         /\ calls' = [calls EXCEPT
                        ![c].searched = @ \cup {"system"},
                        ![c].pc = IF path # "" THEN "resolve"
                                  ELSE IF fs.env = "" THEN "resolve"
                                  ELSE "lookEnv"]
    /\ UNCHANGED fs

\* findPath: exec.LookPath(filepath.Join(dir, exe))
LookEnv(c) ==
    /\ calls[c].pc = "lookEnv"
    /\ LET path == LookPathFile(Join(fs.env, exe)) IN
         /\ IF path # "" THEN Set(path) ELSE NoSet
         /\ calls' = [calls EXCEPT ![c].searched = @ \cup {"env"},
                                   ![c].pc = "resolve"]
    /\ UNCHANGED fs

\* GenerateImage after findPath: the BinaryPath default and its error
Resolve(c) ==
    /\ calls[c].pc = "resolve"
    /\ calls' = [calls EXCEPT ![c] =
         IF @.options.BinaryPath = ""
         THEN IF GetWKHTMLToImagePath = ""
              THEN [@ EXCEPT !.readCache = TRUE, !.pc = "done",
                             !.ret = Returned(<<>>, "BinaryPath not set")]
              ELSE [@ EXCEPT !.readCache = TRUE, !.pc = "run",
                             !.options.BinaryPath = GetWKHTMLToImagePath]
         ELSE [@ EXCEPT !.pc = "run"]]
    /\ NoSet /\ UNCHANGED fs

\* what running the command can give: no process at all, or the captured
\* bytes with the exit status
SpawnFailed == [output |-> <<>>, err |-> "fork/exec: no such file or directory"]
Exited(output, status) ==
    [output |-> output, err |-> IF status = 0 THEN "" ELSE "exit status 1"]

\* GenerateImage from exec.Command to the return; a panic in cleanupOutput
\* leaves through the caller, and the call returns nothing
Run(c, out) ==
    /\ calls[c].pc = "run"
    /\ LET o == calls[c].options
           trimmed == cleanupOutput(out.output, o.Format)
       IN  calls' = [calls EXCEPT
             ![c].spawn = [ran |-> TRUE, path |-> o.BinaryPath,
                           args |-> calls[c].arr, piped |-> o.Html # "",
                           stdin |-> o.Html],
             ![c].output = out.output,
             ![c].exitErr = out.err,
             ![c].repairedAs = o.Format,
             ![c].attempts = trimmed.attempts,
             ![c].pc = IF trimmed.panic THEN "panicked" ELSE "done",
             ![c].ret = IF trimmed.panic THEN NoReturn
                        ELSE Returned(trimmed.bytes, out.err)]
    /\ NoSet /\ UNCHANGED fs

\* the caller has its result and is free to call again
Return(c) ==
    /\ calls[c].pc = "done"
    /\ calls' = [calls EXCEPT ![c] = Idle]
    /\ NoSet /\ UNCHANGED fs

\* caller c is between calls / about to run the command: the guards of the
\* steps that take an input, stated ahead of the choice of the input
Ready(c) == calls[c].pc = "idle"
Spawning(c) == calls[c].pc = "run"

\* the steps of a call that take no input
Step(c) ==
    \/ FindPathCached(c)
    \/ LookAdjacent(c)
    \/ LookSystem(c)
    \/ LookEnv(c)
    \/ Resolve(c)
    \/ Return(c)

----------------------------------------------------------------------------
(* Inputs.                                                                 *)

\* stray bytes: a letter of a warning, and a png signature byte out of place
NoiseBytes == {87, PngSig}

RECURSIVE SeqsUpTo(_, _)
SeqsUpTo(S, n) ==
    IF n = 0 THEN {<<>>}
    ELSE LET shorter == SeqsUpTo(S, n - 1)
         IN  shorter \cup {Append(s, x) : s \in shorter, x \in S}

Garbage == SeqsUpTo(NoiseBytes, MaxGarbage)

\* what the tool wrote after the stray bytes: nothing, or an image
Bodies == {<<>>, PngStream(1, 1), PngStream(2, PngFilter), JpegStream(1, 50)}

Outcomes ==
    {SpawnFailed} \cup {Exited(g \o b, st) : g \in Garbage, b \in Bodies, st \in {0, 1}}

BinaryPaths == {"", "/opt/wkhtmltoimage"}
Inputs == {"", "-", "a.html"}
Formats == {"", "png", "jpg", "svg"}
Htmls == {"", "<p>"}
Outputs == {"", "o.png"}
Sizes == {0, 600, 0 - 12}

Options ==
    {ImageOptions(b, i, f, 0, 0, 0, h, o) :
        b \in BinaryPaths, i \in Inputs, f \in Formats, h \in Htmls, o \in Outputs}

Init ==
    /\ binImagePath = ""
    /\ cached = {}
    /\ fs \in FileSystems
    /\ calls = [c \in Callers |-> Idle]

\* one caller at a time
Next ==
    \/ Ready(1) /\ \E o \in Options : GenerateImage(1, o)
    \/ Spawning(1) /\ \E out \in Outcomes : Run(1, out)
    \/ Step(1)

Spec == Init /\ [][Next]_vars

----------------------------------------------------------------------------
(* Concurrent callers: every interleaving of the steps of NumCallers calls. *)

RaceOptions ==
    {ImageOptions(b, i, "", 0, 0, 0, "", "") :
        b \in BinaryPaths, i \in {"", "a.html"}}

RaceOutcomes == {SpawnFailed, Exited(PngStream(1, 1), 0)}

NextRace ==
    \E c \in Callers :
        \/ Ready(c) /\ \E o \in RaceOptions : GenerateImage(c, o)
        \/ Spawning(c) /\ \E out \in RaceOutcomes : Run(c, out)
        \/ Step(c)

SpecRace == Init /\ [][NextRace]_vars

----------------------------------------------------------------------------
(* The page-list adapter.                                                  *)

Page(data, file) == [Base64PageData |-> data, InputFile |-> file]

\* "PGI+" is "<b>", "PHA+aGk=" is "<p>hi"; "PGI" is cut short and "P!I+" holds
\* a character outside the alphabet
PageSet ==
    {Page("", ""), Page("", "a.html"), Page("PGI+", "a.html"),
     Page("PHA+aGk=", ""), Page("PGI", "a.html"), Page("P!I+", "")}

Malformed == [wellformed |-> FALSE, Pages |-> <<>>]

JsonDocs ==
    {Malformed} \cup
    {[wellformed |-> TRUE, Pages |-> ps] : ps \in SeqsUpTo(PageSet, MaxPages)}

JsonOutcomes == {SpawnFailed, Exited(PngStream(1, 1), 0), Exited(<<87>>, 1)}

NextJSON ==
    \/ Ready(1) /\ \E jp \in JsonDocs : ImageFromJSON(1, jp)
    \/ Spawning(1) /\ \E out \in JsonOutcomes : Run(1, out)
    \/ Step(1)

SpecJSON == Init /\ [][NextJSON]_vars

----------------------------------------------------------------------------
(* The option translator on its own: one call, every field varied, from a  *)
(* process whose cache is empty or already holds what discovery found.     *)

\* the first hit of the search order: beside the executable, on PATH, in the
\* WKHTMLTOIMAGE_PATH directory
FirstHit ==
    IF fs.exeDir # "" /\ Join(fs.exeDir, exe) \in fs.execs
    THEN Join(fs.exeDir, exe)
    ELSE IF Join(SearchPath[1], exe) \in fs.execs
    THEN Join(SearchPath[1], exe)
    ELSE IF fs.env # "" /\ Join(fs.env, exe) \in fs.execs
    THEN Join(fs.env, exe)
    ELSE ""

\* what a finished findPath leaves in the cache: nothing when the directory
\* of the executable could not be made absolute
Discovered == IF fs.exeDir = "" THEN "" ELSE FirstHit

ParamOptions ==
    {ImageOptions(b, i, f, h, w, q, html, o) :
        b \in BinaryPaths, i \in Inputs, f \in Formats, h \in Sizes, w \in Sizes,
        q \in Sizes, html \in Htmls, o \in Outputs}

InitParams ==
    /\ fs \in FileSystems
    /\ binImagePath \in {"", Discovered}
    /\ cached = {binImagePath} \ {""}
    /\ calls = [c \in Callers |-> Idle]

NextParams == Ready(1) /\ \E o \in ParamOptions : GenerateImage(1, o)

SpecParams == InitParams /\ [][NextParams]_vars

----------------------------------------------------------------------------
(* Properties.                                                             *)

\* the call has gone past buildParams without its error
Translated(k) == k.pc \in {"findPath", "lookAdjacent", "lookSystem", "lookEnv",
                           "resolve", "run"} \/ k.spawn.ran
                 \/ (k.pc = "done" /\ k.ret.err = "BinaryPath not set")

\* the call has done nothing with the cache, the search or a process
Untouched(k) ==
    /\ ~k.readCache
    /\ k.searched = {}
    /\ ~k.spawn.ran
    /\ binImagePath = k.cacheAtCall

\* C1: a call with a non-empty BinaryPath runs that path, does not read the
\* cached path, searches none of the three places and leaves the cached path
\* as it was.
C1_ExplicitPathSkipsDiscovery ==
    \A c \in Callers :
        LET k == calls[c] IN
        (k.given.BinaryPath # "" /\ Translated(k)) =>
            /\ ~k.readCache
            /\ k.searched = {}
            /\ binImagePath = k.cacheAtCall
            /\ (k.spawn.ran => k.spawn.path = k.given.BinaryPath)

\* C2: when the process fails to spawn or exits non-zero, the call returns
\* that error together with the repair of the captured bytes, for every
\* format and every captured buffer.
C2_FailureReturnsErrorAndRepair ==
    \A c \in Callers :
        LET k == calls[c] IN
        (k.spawn.ran /\ k.exitErr # "") =>
            /\ k.pc = "done"
            /\ k.ret.returned
            /\ k.ret.err = k.exitErr
            /\ k.ret.bytes = cleanupOutput(k.output, k.repairedAs).bytes

\* C3: a call whose Input is not "-" has its Html cleared before the process
\* is spawned and pipes nothing; standard input is piped only when Input is
\* "-" and Html is non-empty, and then it carries that Html.
C3_HtmlOnlyOnStdin ==
    \A c \in Callers :
        LET k == calls[c] IN
        /\ (Translated(k) /\ k.given.Input # "-") => k.options.Html = ""
        /\ k.spawn.ran =>
             /\ k.spawn.piped <=> (k.given.Input = "-" /\ k.given.Html # "")
             /\ k.spawn.piped => k.spawn.stdin = k.given.Html
             /\ ~k.spawn.piped => k.spawn.stdin = ""

C3_Witness ==
    \E c \in Callers :
        LET k == calls[c] IN
        /\ k.spawn.ran
        /\ k.given.Input = "a.html"
        /\ k.given.Html = "<p>"
        /\ ~k.spawn.piped

\* C4: a call with an empty Input returns "Must provide input" with an empty
\* byte result, whatever the other fields, before any discovery or spawn: the
\* cached path is unchanged and no process runs.
C4_EmptyInputFailsFirst ==
    \A c \in Callers :
        LET k == calls[c] IN
        (k.pc # "idle" /\ k.given.Input = "") =>
            /\ k.pc = "done"
            /\ k.ret = Returned(<<>>, "Must provide input")
            /\ k.arr = <<>>
            /\ Untouched(k)

C4_Witness ==
    \E c \in Callers :
        LET k == calls[c] IN
        /\ k.pc = "done"
        /\ k.given.Input = ""
        /\ k.given.Html # ""
        /\ k.given.BinaryPath # ""
        /\ k.given.Height # 0
        /\ k.cacheAtCall # ""

\* the decimal numeral s read back as an integer
RECURSIVE atou(_)
atou(s) ==
    IF Len(s) = 0 THEN 0
    ELSE LET d == CHOOSE i \in 0..9 : CharAt(Digits, i + 1) = CharAt(s, Len(s))
         IN  10 * atou(SubSeq(s, 1, Len(s) - 1)) + d

Atoi(s) == IF CharAt(s, 1) = "-" THEN 0 - atou(Tail(s)) ELSE atou(s)

\* 1 for a non-zero value, 0 for zero
Present(v) == IF v # 0 THEN 1 ELSE 0

C6_RepairIgnoresLeadingNoise ==
    \A c \in Callers :
        LET k == calls[c] IN
        \A g \in Garbage, p \in Pixels, f \in {0, 1} :
            (k.spawn.ran /\ k.repairedAs = "png" /\ k.output = g \o PngStream(p, f))
            => /\ k.pc = "done"
               /\ k.ret.bytes = PngStream(p, PngFilter)
               /\ k.attempts = Len(g) + 1

C6_Witness ==
    \E c \in Callers :
        LET k == calls[c] IN
        /\ k.pc = "done"
        /\ k.repairedAs = "png"
        /\ k.output = <<87, PngSig>> \o PngStream(1, 1)
        /\ k.ret.bytes = PngStream(1, PngFilter)

\* what the base64 page data of PageSet stand for, "" for the malformed ones
PageHtml(data) ==
    IF data = "PGI+" THEN "<b>"
    ELSE IF data = "PHA+aGk=" THEN "<p>hi"
    ELSE ""

\* the call returned an error without entering GenerateImage
FailedDirect(k) ==
    /\ k.pc = "done"
    /\ k.ret.err # ""
    /\ k.ret.bytes = <<>>
    /\ k.given = NoOptions
    /\ Untouched(k)

\* C7: ImageFromJSON uses the first page only: no pages give no bytes and no
\* error without discovery or spawn; base64 data on page 0 give Input "-" and
\* the decoded Html, and otherwise Input is page 0's input file; malformed
\* JSON or base64 give an error and no process.
C7_FirstPageOnly ==
    \A c \in Callers :
        LET k == calls[c]
            jp == k.doc
        IN  k.via = "ImageFromJSON" =>
            IF ~jp.wellformed THEN FailedDirect(k)
            ELSE IF Len(jp.Pages) = 0
            THEN /\ k.pc = "done"
                 /\ k.ret = Returned(<<>>, "")
                 /\ k.given = NoOptions
                 /\ Untouched(k)
            ELSE LET p == jp.Pages[1] IN
                 IF p.Base64PageData = ""
                 THEN k.given = ImageOptions("", p.InputFile, "", 0, 0, 0, "", "")
                 ELSE IF PageHtml(p.Base64PageData) # ""
                 THEN /\ k.given = ImageOptions("", "-", "", 0, 0, 0,
                                                PageHtml(p.Base64PageData), "")
                      /\ k.spawn.ran => (k.spawn.piped /\ k.spawn.stdin = k.given.Html)
                 ELSE FailedDirect(k)

C7_Witness ==
    \E c \in Callers :
        LET k == calls[c] IN
        /\ k.via = "ImageFromJSON"
        /\ k.doc.Pages = <<Page("PHA+aGk=", ""), Page("", "a.html")>>
        /\ k.spawn.ran
        /\ k.spawn.stdin = "<p>hi"
        /\ k.spawn.args = <<"-q", "--disable-plugins", "--format", "png", "-", "-">>

\* no image decodes at any offset of buf
Undecodable(format, buf) ==
    \A i \in 1..(Len(buf) + 1) : ~Decode(format, SubSeq(buf, i, Len(buf))).ok

\* C8: for "png" or "jpg" and a captured buffer with no decodable image at any
\* offset, the repair makes at most len(buffer) decode attempts, does not
\* abort, and the call returns the exhausted, empty buffer.
C8_UndecodableReturnsEmpty ==
    \A c \in Callers :
        LET k == calls[c] IN
        (k.spawn.ran /\ k.repairedAs \in {"png", "jpg"}
                     /\ Undecodable(k.repairedAs, k.output)) =>
            /\ k.pc = "done"
            /\ k.ret.returned
            /\ k.ret.bytes = <<>>
            /\ k.attempts <= Len(k.output)

C10_RepairFormatIsToolFormat ==
    \A c \in Callers :
        LET k == calls[c] IN
        k.spawn.ran =>
            /\ k.repairedAs = k.spawn.args[4]
            /\ (k.given.Format = "" /\ k.pc = "done") =>
                 k.ret.bytes = cleanupOutput(k.output, "png").bytes

====
